---- MODULE Spec2Model ----
(***************************************************************************)
(* The template store, the selection store and the daily nutrition         *)
(* analysis of the meal planning application (src/app.py, src/models.py).  *)
(*                                                                         *)
(* Nutrient quantities are whole units (kcal, g, mg).  They are floats in  *)
(* the program: binary, with a significand of 53 bits, every sum rounded   *)
(* to the nearest float, ties to the even significand.  The model keeps    *)
(* the rounding and narrows the significand to FloatBits bits, so that a   *)
(* sum that rounds has small summands.  Below 2^FloatBits every sum is     *)
(* exact, as are comparison and round(x, 1).  A percentage is the exact    *)
(* ratio num/den.                                                          *)
(***************************************************************************)
EXTENDS Integers, Sequences, FiniteSets, TLC

VARIABLES templates, selections, txn, resp

vars == <<templates, selections, txn, resp>>

(***************************************************************************)
(* Bounds of the model.                                                    *)
(***************************************************************************)
\* (meal, item name) pairs in one /student/select request
MaxItems == 2
\* templates in a catalogue handed to the analysis
MaxCatalog == 4
\* selection rows in a store handed to the analysis
MaxRows == 2
\* bits of the significand of a float
FloatBits == 13
\* selection rows in a store whose sums round
MaxSummands == 3

(***************************************************************************)
(* Static data.                                                            *)
(***************************************************************************)
\* the keys of `totals`, in the order the dict literal lists them
Nutrients == <<"calories", "protein", "carbs", "fats", "sugar", "fibre", "sodium">>

NutrientSet == {Nutrients[i] : i \in 1..Len(Nutrients)}

DAILY_RECOMMENDED ==
  [calories |-> [min |-> 1800, max |-> 2400, unit |-> "kcal"],
   protein  |-> [min |-> 50,   max |-> 150,  unit |-> "g"],
   carbs    |-> [min |-> 225,  max |-> 325,  unit |-> "g"],
   fats     |-> [min |-> 44,   max |-> 78,   unit |-> "g"],
   sugar    |-> [min |-> 0,    max |-> 50,   unit |-> "g"],
   fibre    |-> [min |-> 25,   max |-> 38,   unit |-> "g"],
   sodium   |-> [min |-> 0,    max |-> 2300, unit |-> "mg"]]

\* the keys of `meals` and `meal_totals`, in the order the dict literal lists them
MealSlots == <<"breakfast", "lunch", "dinner">>

MealSlotSet == {MealSlots[i] : i \in 1..Len(MealSlots)}

\* str.capitalize() on the nutrient keys
Capitalize(n) ==
  CASE n = "calories" -> "Calories"
    [] n = "protein"  -> "Protein"
    [] n = "carbs"    -> "Carbs"
    [] n = "fats"     -> "Fats"
    [] n = "sugar"    -> "Sugar"
    [] n = "fibre"    -> "Fibre"
    [] n = "sodium"   -> "Sodium"

\* round(x, 1): exact on the whole quantities of this model
Round1(x) == x

(***************************************************************************)
(* The stores.  A template is a row of menu_item_template, a selection a   *)
(* row of student_selection; both tables are sequences in rowid order,     *)
(* the order in which a query without ORDER BY returns them.               *)
(***************************************************************************)
NoTemplate == [id |-> 0, name |-> "", calories |-> 0, protein |-> 0, carbs |-> 0,
               fats |-> 0, sugar |-> 0, fibre |-> 0, sodium |-> 0]

\* the names of the catalogue
NamesOf(tpls) == {tpls[i].name : i \in 1..Len(tpls)}

\* the elements of a sequence
Range(seq) == {seq[i] : i \in 1..Len(seq)}

\* MenuItemTemplate.query.filter_by(name=...).first()
TemplateByName(tpls, name) ==
  IF \E i \in 1..Len(tpls) : tpls[i].name = name
    THEN tpls[CHOOSE i \in 1..Len(tpls) :
                /\ tpls[i].name = name
                /\ \A j \in 1..(i - 1) : tpls[j].name # name]
    ELSE NoTemplate

\* the relationship StudentSelection.template: the row with that primary key, or None
TemplateOf(tpls, s) ==
  IF \E i \in 1..Len(tpls) : tpls[i].id = s.template_id
    THEN tpls[CHOOSE i \in 1..Len(tpls) : tpls[i].id = s.template_id]
    ELSE NoTemplate

\* `not s.template`
HasTemplate(tpls, s) == TemplateOf(tpls, s) # NoTemplate

\* StudentSelection.query.filter_by(student_id=..., date=...).all()
SelectionsOf(sel, student_id, date) ==
  SelectSeq(sel, LAMBDA s : s.student_id = student_id /\ s.date = date)

(***************************************************************************)
(* The analysis: analyze_daily_nutrition and what it calls.                *)
(***************************************************************************)
Front(seq) == SubSeq(seq, 1, Len(seq) - 1)

Last(seq) == seq[Len(seq)]

\* Resolved without the `if not s.template: continue`
Resolved_All(tpls, sels) == sels

\* the rows the aggregation loop does not skip (`if not s.template: continue`)
Resolved(tpls, sels) == SelectSeq(sels, LAMBDA s : HasTemplate(tpls, s))

\* the rows of one meal slot among `rows`
InSlot(rows, meal) == SelectSeq(rows, LAMBDA s : s.meal_type = meal)

RECURSIVE Ulp(_, _)
\* the spacing of the floats around a (a >= 2^FloatBits): the power of two s, from
\* s on, with a < 2^FloatBits * s
Ulp(a, s) == IF a < (2 ^ FloatBits) * s THEN s ELSE Ulp(a, 2 * s)

\* the float nearest to the whole number x, ties to the even significand
RoundFloat(x) ==
  LET a    == IF x < 0 THEN -x ELSE x
      s    == Ulp(a, 1)
      q    == a \div s
      rem  == a % s
      up   == 2 * rem > s \/ (2 * rem = s /\ q % 2 = 1)
      near == IF up THEN (q + 1) * s ELSE q * s
  IN  IF a < 2 ^ FloatBits THEN x
      ELSE IF x < 0 THEN -near ELSE near

\* a + b on floats
FloatAdd(a, b) == RoundFloat(a + b)

\* SumField with `=` in place of `+=`
SumField_LastOnly(tpls, rows, n) ==
  IF rows = <<>> THEN 0 ELSE TemplateOf(tpls, Last(rows))[n]

RECURSIVE SumField(_, _, _)
\* the running `+=` of one nutrient field over the joined rows, in row order
SumField(tpls, rows, n) ==
  IF rows = <<>> THEN 0
  ELSE FloatAdd(SumField(tpls, Front(rows), n), TemplateOf(tpls, Last(rows))[n])

\* `totals` after the loop
Totals(tpls, rows) == [n \in NutrientSet |-> SumField(tpls, rows, n)]

\* the item list of one key of `meals` after the loop
MealItems(tpls, rows, meal) ==
  LET r == InSlot(rows, meal)
  IN  [i \in 1..Len(r) |-> TemplateOf(tpls, r[i]).name]

\* min(100, x) on a ratio
Min100(r) == IF r.num < 100 * r.den THEN r ELSE [num |-> 100, den |-> 1]

\* percentages[nutrient]: value / rec["max"] * 100 for sugar and sodium, else
\* value / target * 100 with target = (min + max) / 2, then min(100, .)
Percentage(nutrient, value) ==
  LET rec == DAILY_RECOMMENDED[nutrient]
  IN  IF nutrient \in {"sugar", "sodium"}
        THEN Min100([num |-> value * 100, den |-> rec.max])
        ELSE Min100([num |-> value * 100 * 2, den |-> rec.min + rec.max])

RECURSIVE SortedDesc(_, _)
\* sorted(all_items, key=nutrient_map[nutrient], reverse=True): stable
SortedDesc(items, n) ==
  IF items = <<>> THEN <<>>
  ELSE LET rest == SortedDesc(Front(items), n)
           x    == Last(items)
           k    == Cardinality({i \in 1..Len(rest) : rest[i][n] >= x[n]})
       IN  SubSeq(rest, 1, k) \o <<x>> \o SubSeq(rest, k + 1, Len(rest))

\* nutrient_map with a key for sodium
Rankable_WithSodium == {"calories", "protein", "carbs", "fats", "fibre", "sodium"}

\* the keys of nutrient_map
Rankable == {"calories", "protein", "carbs", "fats", "fibre"}

\* seq[:k]
Take(seq, k) == SubSeq(seq, 1, IF Len(seq) < k THEN Len(seq) ELSE k)

\* find_items_high_in_nutrient without the filter on the selected names
find_items_unfiltered(tpls, nutrient, exclude_meals) ==
  LET sorted_items == Take(SortedDesc(tpls, nutrient), 5)
  IN  IF nutrient \notin Rankable THEN <<>>
      ELSE [i \in 1..Len(sorted_items) |->
              [name   |-> sorted_items[i].name,
               amount |-> Round1(sorted_items[i][nutrient]),
               unit   |-> DAILY_RECOMMENDED[nutrient].unit]]

\* the up to five templates richest in `nutrient` among those not selected that day
find_items_high_in_nutrient(tpls, nutrient, exclude_meals) ==
  LET exclude_names == UNION {{exclude_meals[m][i] : i \in 1..Len(exclude_meals[m])} :
                                m \in DOMAIN exclude_meals}
      all_items     == SelectSeq(tpls, LAMBDA t : t.name \notin exclude_names)
      sorted_items  == Take(SortedDesc(all_items, nutrient), 5)
  IN  IF nutrient \notin Rankable THEN <<>>
      ELSE [i \in 1..Len(sorted_items) |->
              [name   |-> sorted_items[i].name,
               amount |-> Round1(sorted_items[i][nutrient]),
               unit   |-> DAILY_RECOMMENDED[nutrient].unit]]

\* SuggestionsFor with the two comparisons made non-strict
SuggestionsFor_AtBound(tpls, nutrient, value, current_meals) ==
  LET rec == DAILY_RECOMMENDED[nutrient]
  IN  IF nutrient \in {"sugar", "sodium"}
        THEN IF value >= rec.max
               THEN <<[type |-> "warning", nutrient |-> nutrient, value |-> value,
                       items |-> <<>>]>>
               ELSE <<>>
        ELSE IF value <= rec.min
               THEN <<[type |-> "suggestion", nutrient |-> Capitalize(nutrient),
                       current |-> Round1(value), target |-> rec.min,
                       deficit |-> Round1(rec.min - value), unit |-> rec.unit,
                       recommended_items |->
                         Take(find_items_high_in_nutrient(tpls, nutrient, current_meals), 3)]>>
               ELSE <<>>

\* what one iteration of the loop of generate_suggestions appends
SuggestionsFor(tpls, nutrient, value, current_meals) ==
  LET rec == DAILY_RECOMMENDED[nutrient]
  IN  IF nutrient \in {"sugar", "sodium"}
        THEN IF value > rec.max
               THEN <<[type |-> "warning", nutrient |-> nutrient, value |-> value,
                       items |-> <<>>]>>
               ELSE <<>>
        ELSE IF value < rec.min
               THEN <<[type |-> "suggestion", nutrient |-> Capitalize(nutrient),
                       current |-> Round1(value), target |-> rec.min,
                       deficit |-> Round1(rec.min - value), unit |-> rec.unit,
                       recommended_items |->
                         Take(find_items_high_in_nutrient(tpls, nutrient, current_meals), 3)]>>
               ELSE <<>>

RECURSIVE SuggestionsUpTo(_, _, _, _)
\* `suggestions` after the first k nutrients of totals.items()
SuggestionsUpTo(tpls, totals, current_meals, k) ==
  IF k = 0 THEN <<>>
  ELSE SuggestionsUpTo(tpls, totals, current_meals, k - 1)
         \o SuggestionsFor(tpls, Nutrients[k], totals[Nutrients[k]], current_meals)

\* generate_suggestions with the warnings moved in front of the deficiencies
generate_suggestions_grouped(tpls, totals, current_meals) ==
  LET all == SuggestionsUpTo(tpls, totals, current_meals, Len(Nutrients))
  IN  SelectSeq(all, LAMBDA sg : sg.type = "warning")
        \o SelectSeq(all, LAMBDA sg : sg.type = "suggestion")

\* `suggestions` after the loop over totals.items()
generate_suggestions(tpls, totals, current_meals) ==
  SuggestionsUpTo(tpls, totals, current_meals, Len(Nutrients))

\* MealSuggestions with the three comparisons made non-strict
MealSuggestions_AtThreshold(meal_total) ==
  (IF meal_total.protein <= 15
     THEN <<[advisory |-> "low in protein", value |-> meal_total.protein]>> ELSE <<>>)
  \o (IF meal_total.fibre <= 5
        THEN <<[advisory |-> "could use more fiber", value |-> meal_total.fibre]>> ELSE <<>>)
  \o (IF meal_total.sugar >= 15
        THEN <<[advisory |-> "high in sugar", value |-> meal_total.sugar]>> ELSE <<>>)

\* meal_suggestions of one populated slot
MealSuggestions(meal_total) ==
  (IF meal_total.protein < 15
     THEN <<[advisory |-> "low in protein", value |-> meal_total.protein]>> ELSE <<>>)
  \o (IF meal_total.fibre < 5
        THEN <<[advisory |-> "could use more fiber", value |-> meal_total.fibre]>> ELSE <<>>)
  \o (IF meal_total.sugar > 15
        THEN <<[advisory |-> "high in sugar", value |-> meal_total.sugar]>> ELSE <<>>)

\* BreakdownSlots without the skip of the empty slots
BreakdownSlots_All(meals) == DOMAIN meals

\* the slots the breakfast/lunch/dinner loop does not skip (`if not meal_items: continue`)
BreakdownSlots(meals) == {m \in DOMAIN meals : meals[m] # <<>>}

\* None
Absent == [status |-> "absent"]

\* meals[s.meal_type] with s.meal_type not a key of `meals`
Raised == [status |-> "KeyError"]

analyze_daily_nutrition(tpls, sel, student_id, date) ==
  LET sels        == SelectionsOf(sel, student_id, date)
      rows        == Resolved(tpls, sels)
      totals      == Totals(tpls, rows)
      meals       == [m \in MealSlotSet |-> MealItems(tpls, rows, m)]
      meal_totals == [m \in MealSlotSet |-> Totals(tpls, InSlot(rows, m))]
  IN  IF sels = <<>> THEN Absent
      ELSE IF \E i \in 1..Len(rows) : rows[i].meal_type \notin MealSlotSet THEN Raised
      ELSE [status         |-> "present",
            totals         |-> totals,
            percentages    |-> [n \in NutrientSet |-> Percentage(n, totals[n])],
            meals          |-> meals,
            suggestions    |-> generate_suggestions(tpls, totals, meals),
            meal_breakdown |->
              [m \in BreakdownSlots(meals) |->
                 [items       |-> meals[m],
                  totals      |-> meal_totals[m],
                  suggestions |-> MealSuggestions(meal_totals[m])]]]

(***************************************************************************)
(* Requests.  current_user is one of Users; JSON values are tagged.        *)
(***************************************************************************)
Users == {[id |-> 1, role |-> "member"], [id |-> 2, role |-> "member"],
          [id |-> 3, role |-> "organisation"], [id |-> 4, role |-> "individual"]}

\* the date strings strptime(., "%Y-%m-%d") parses that the requests of Spec carry,
\* and one it rejects
Dates == {"2024-03-01"}

\* every date string of this model that strptime parses
ParsedDates == Dates \cup {"2024-03-02"}

BadDate == "2024-3-x"

\* the k-th entry of a catalogue handed to the analysis is named TemplateNames[k]
TemplateNames == <<"a", "b", "c", "d", "e", "f">>

\* template names a request may carry
Names == {"a", "b"}

Num(v) == [kind |-> "number", v |-> v]

\* a key that is absent from the JSON object, or null
Null == [kind |-> "null", v |-> 0]

\* a string float() does not parse
Text == [kind |-> "string", v |-> 0]

\* nutrient contents of the templates of this model: a meal whose protein, fibre and
\* sugar sit on the per-meal thresholds, one whose seven fields sit on the daily
\* bounds (the min of a nutrient to ensure, the max of one to limit), and one that
\* moves a total one unit past such a bound: -1 where a minimum is to be reached,
\* +1 where a maximum is not to be exceeded
PerMealEdge == [calories |-> 1800, protein |-> 15, carbs |-> 10, fats |-> 0,
                sugar |-> 15, fibre |-> 5, sodium |-> 2400]

DailyEdge == [calories |-> 1800, protein |-> 50, carbs |-> 225, fats |-> 44,
              sugar |-> 50, fibre |-> 25, sodium |-> 2300]

PastEdge == [calories |-> -1, protein |-> -1, carbs |-> -1, fats |-> -1,
             sugar |-> 1, fibre |-> -1, sodium |-> 1]

Contents == {PerMealEdge, DailyEdge, PastEdge}

\* request.json of /organisation/add-menu-template
Payload(name, c) ==
  [name |-> name, calories |-> Num(c.calories), protein |-> Num(c.protein),
   carbs |-> Num(c.carbs), fats |-> Num(c.fats), sugar |-> Num(c.sugar),
   fibre |-> Num(c.fibre), sodium |-> Num(c.sodium)]

TemplatePayloads ==
  {Payload("a", PerMealEdge), Payload("b", PastEdge)}
    \cup {[Payload(n, PerMealEdge) EXCEPT !.sugar = Null] : n \in Names}
    \cup {[Payload(n, PerMealEdge) EXCEPT !.fibre = Text] : n \in Names}

\* the MenuItemTemplate row the handler builds; AUTOINCREMENT-free rowid: max + 1
NewTemplate(tpls, data) ==
  [id |-> Len(tpls) + 1, name |-> data.name,
   calories |-> data.calories.v, protein |-> data.protein.v, carbs |-> data.carbs.v,
   fats |-> data.fats.v, sugar |-> data.sugar.v, fibre |-> data.fibre.v,
   sodium |-> data.sodium.v]

NoTxn == [open |-> FALSE]

\* the request answered last: the handler, the arguments it acted on (NoArgs when
\* it answered before acting on any), the HTTP status and the body
Response(op, args, status, body) ==
  [op |-> op, args |-> args, status |-> status, body |-> body]

NoArgs == [none |-> TRUE]

NoBody == [status |-> "none"]

\* the response with the role of current_user, who sent the request
By(user, r) ==
  [actor |-> user.role, op |-> r.op, args |-> r.args, status |-> r.status,
   body |-> r.body]

\* the user with that id
UserOf(id) == CHOOSE u \in Users : u.id = id

\* a step of a handler that has not answered yet
NoResponse == By([role |-> "none"], Response("none", NoArgs, 0, NoBody))

Init ==
  /\ templates = <<>>
  /\ selections = <<>>
  /\ txn = NoTxn
  /\ resp = NoResponse

(***************************************************************************)
(* POST /organisation/add-menu-template                                    *)
(***************************************************************************)
\* the first required nutrient field that is absent or None, or "" when there is
\* none (every payload of this model carries a name)
MissingField(data) ==
  LET required == <<"calories", "protein", "carbs", "fats", "sugar", "fibre", "sodium">>
      bad      == {i \in 1..Len(required) : data[required[i]].kind = "null"}
  IN  IF bad = {} THEN ""
      ELSE required[CHOOSE i \in bad : \A j \in bad : i <= j]

\* float() raises on one of the seven values
FloatRaises(data) == \E n \in NutrientSet : data[n].kind = "string"

\* `existing` with the lookup by name left out
existing_unchecked(tpls, data) == NoTemplate

\* existing = MenuItemTemplate.query.filter_by(name=data["name"]).first()
existing(tpls, data) == TemplateByName(tpls, data.name)

add_menu_template(user, data) ==
  LET reply(status, body) == Response("add_menu_template", NoArgs, status, body)
      named(status, body) ==
        Response("add_menu_template", [name |-> data.name], status, body)
  IN
  \/ /\ user.role # "organisation"
     /\ resp' = By(user, reply(403, [status |-> "Unauthorized"]))
     /\ UNCHANGED <<templates, selections, txn>>
  \/ /\ user.role = "organisation"
     /\ MissingField(data) # ""
     /\ resp' = By(user, reply(400, [status |-> "required", field |-> MissingField(data)]))
     /\ UNCHANGED <<templates, selections, txn>>
  \/ /\ user.role = "organisation"
     /\ MissingField(data) = ""
     /\ existing(templates, data) # NoTemplate
     /\ resp' = By(user, named(400, [status |-> "Item already exists"]))
     /\ UNCHANGED <<templates, selections, txn>>
  \/ /\ user.role = "organisation"
     /\ MissingField(data) = ""
     /\ existing(templates, data) = NoTemplate
     /\ FloatRaises(data)
     /\ resp' = By(user, reply(500, [status |-> "ValueError"]))
     /\ UNCHANGED <<templates, selections, txn>>
  \/ /\ user.role = "organisation"
     /\ MissingField(data) = ""
     /\ existing(templates, data) = NoTemplate
     /\ ~FloatRaises(data)
     /\ txn.open
     \* the INSERT waits for the write lock of the open transaction and gives up
     /\ resp' = By(user, reply(500, [status |-> "database is locked"]))
     /\ UNCHANGED <<templates, selections, txn>>
  \/ /\ user.role = "organisation"
     /\ MissingField(data) = ""
     /\ existing(templates, data) = NoTemplate
     /\ ~FloatRaises(data)
     /\ ~txn.open
     /\ templates' = Append(templates, NewTemplate(templates, data))
     /\ resp' = By(user, named(200, [status |-> "success", id |-> Len(templates) + 1]))
     /\ UNCHANGED <<selections, txn>>

(***************************************************************************)
(* POST /student/select.  The handler runs in one database transaction:    *)
(* the DELETE takes SQLite's write lock, the rows added to the session are *)
(* visible to this session alone until db.session.commit(), and a request  *)
(* that ends without commit is rolled back when its session is removed.    *)
(* txn.work is the student_selection table as the open session sees it,    *)
(* txn.replaced the rows its DELETE removed.                               *)
(***************************************************************************)
\* meal keys a request may carry: a slot and a key the analysis does not know
RequestMeals == {"lunch", "snack1"}

\* data["meals"] flattened to the (meal, item_name) pairs the two nested loops visit
Pair(meal, name) == [meal |-> meal, name |-> name]

\* a dict holds each meal key once, so the pairs of one meal are adjacent
DictOrder(items) ==
  \A i, k \in 1..Len(items) :
    (i < k /\ items[i].meal = items[k].meal)
      => \A j \in i..k : items[j].meal = items[i].meal

PairSeqs(len) == [1..len -> {Pair(m, n) : m \in RequestMeals, n \in Names}]

MealsInputs ==
  {items \in UNION {PairSeqs(len) : len \in 0..MaxItems} : DictOrder(items)}

\* DeleteSelections with the date test inverted: the rows of that day stay
DeleteSelections_None(sel, student_id, date) ==
  SelectSeq(sel, LAMBDA s : ~(s.student_id = student_id /\ s.date # date))

\* DeleteSelections with filter_by(date=date) alone
DeleteSelections_ByDate(sel, student_id, date) ==
  SelectSeq(sel, LAMBDA s : s.date # date)

\* StudentSelection.query.filter_by(student_id=..., date=...).delete()
DeleteSelections(sel, student_id, date) ==
  SelectSeq(sel, LAMBDA s : ~(s.student_id = student_id /\ s.date = date))

\* AddedRows without the `if not template: continue`
AddedRows_Unchecked(tpls, student_id, date, item) ==
  <<[student_id |-> student_id, date |-> date, meal_type |-> item.meal,
     template_id |-> TemplateByName(tpls, item.name).id]>>

\* the row one iteration of the inner loop adds, or none when the name does not resolve
AddedRows(tpls, student_id, date, item) ==
  IF TemplateByName(tpls, item.name) = NoTemplate THEN <<>>
  ELSE <<[student_id |-> student_id, date |-> date, meal_type |-> item.meal,
          template_id |-> TemplateByName(tpls, item.name).id]>>

\* role check, date parsing and the DELETE; has_meals is FALSE for a body with no "meals"
student_select_begin(user, date, has_meals, items) ==
  LET reply(status, body) == Response("student_select", NoArgs, status, body)
  IN
  \/ /\ user.role # "member"
     /\ resp' = By(user, reply(403, [status |-> "Unauthorized"]))
     /\ UNCHANGED <<templates, selections, txn>>
  \/ /\ user.role = "member"
     /\ date \notin ParsedDates
     /\ resp' = By(user, reply(400, [status |-> "Invalid date"]))
     /\ UNCHANGED <<templates, selections, txn>>
  \/ /\ user.role = "member"
     /\ date \in ParsedDates
     /\ txn.open
     \* the DELETE waits for the write lock of the open transaction and gives up
     /\ resp' = By(user, reply(500, [status |-> "database is locked"]))
     /\ UNCHANGED <<templates, selections, txn>>
  \/ /\ user.role = "member"
     /\ date \in ParsedDates
     /\ ~txn.open
     /\ Len(DeleteSelections(selections, user.id, date)) + Len(items) <= MaxRows
     /\ txn' = [open |-> TRUE, student_id |-> user.id, date |-> date,
                has_meals |-> has_meals, items |-> items, next |-> 1,
                replaced |-> SelectionsOf(selections, user.id, date),
                work |-> DeleteSelections(selections, user.id, date)]
     /\ resp' = NoResponse
     /\ UNCHANGED <<templates, selections>>

\* student_select_item with every added row committed at once
student_select_item_autocommit ==
  /\ txn.open
  /\ txn.has_meals
  /\ txn.next <= Len(txn.items)
  /\ txn' = [txn EXCEPT
               !.next = @ + 1,
               !.work = @ \o AddedRows(templates, txn.student_id, txn.date,
                                       txn.items[txn.next])]
  /\ selections' = txn'.work
  /\ resp' = NoResponse
  /\ UNCHANGED templates

\* one iteration of the inner loop: look the name up, add a row when it resolves
student_select_item ==
  /\ txn.open
  /\ txn.has_meals
  /\ txn.next <= Len(txn.items)
  /\ txn' = [txn EXCEPT
               !.next = @ + 1,
               !.work = @ \o AddedRows(templates, txn.student_id, txn.date,
                                       txn.items[txn.next])]
  /\ resp' = NoResponse
  /\ UNCHANGED <<templates, selections>>

\* db.session.commit() and the "saved" response
student_select_commit ==
  /\ txn.open
  /\ txn.has_meals
  /\ txn.next > Len(txn.items)
  /\ selections' = txn.work
  /\ txn' = NoTxn
  /\ resp' = By(UserOf(txn.student_id), Response("student_select",
                      [student_id |-> txn.student_id, date |-> txn.date,
                       items |-> txn.items, replaced |-> txn.replaced],
                      200, [status |-> "saved"]))
  /\ UNCHANGED templates

\* an exception before the commit (KeyError on data["meals"], a failing store
\* call): the response is an error and the session is rolled back
student_select_fail ==
  /\ txn.open
  /\ txn' = NoTxn
  /\ resp' = By(UserOf(txn.student_id), Response("student_select",
                      [student_id |-> txn.student_id, date |-> txn.date,
                       replaced |-> txn.replaced],
                      500, [status |-> "error"]))
  /\ UNCHANGED <<templates, selections>>

(***************************************************************************)
(* GET /member/analytics and GET /organisation/analytics-data: readers of  *)
(* the committed tables.                                                   *)
(***************************************************************************)
member_analytics(user, date_str, today) ==
  LET date == IF date_str \in ParsedDates THEN date_str ELSE today
  IN
  /\ resp' = By(user, IF user.role # "member"
               THEN Response("member_analytics", NoArgs, 302, [status |-> "redirect"])
               ELSE LET analysis == analyze_daily_nutrition(templates, selections,
                                                            user.id, date)
                    IN  Response("member_analytics",
                                 [student_id |-> user.id, date |-> date],
                                 IF analysis = Raised THEN 500 ELSE 200, analysis))
  /\ UNCHANGED <<templates, selections, txn>>

\* StudentSelection.query.filter_by(date=date).all()
SelectionsOn(sel, date) == SelectSeq(sel, LAMBDA s : s.date = date)

\* the index of the first row on which the loop of analytics_data raises, or 0
FirstRaising(tpls, rows) ==
  LET raising == {i \in 1..Len(rows) : \/ rows[i].meal_type \notin MealSlotSet
                                       \/ ~HasTemplate(tpls, rows[i])}
  IN  IF raising = {} THEN 0 ELSE CHOOSE i \in raising : \A j \in raising : i <= j

\* analytics_data without the role check
analytics_data_unguarded(user, date_str) ==
  LET rows   == SelectionsOn(selections, date_str)
      k      == FirstRaising(templates, rows)
      reply(args, status, body) == Response("analytics_data", args, status, body)
  IN
  /\ resp' = By(user,
       IF date_str \notin ParsedDates
         THEN reply(NoArgs, 500, [status |-> "ValueError"])
       ELSE IF k # 0
         THEN reply([date |-> date_str], 500,
                    [status |-> IF rows[k].meal_type \notin MealSlotSet
                                  THEN "KeyError" ELSE "AttributeError"])
       ELSE reply([date |-> date_str], 200,
                  [status |-> "present",
                   result |-> [m \in MealSlotSet |-> MealItems(templates, rows, m)]]))
  /\ UNCHANGED <<templates, selections, txn>>

\* result[s.meal_type].append(s.template.name): KeyError for a meal key that is no
\* key of `result`, else AttributeError for a row whose template is None
analytics_data(user, date_str) ==
  LET rows   == SelectionsOn(selections, date_str)
      k      == FirstRaising(templates, rows)
      reply(args, status, body) == Response("analytics_data", args, status, body)
  IN
  /\ resp' = By(user,
       IF user.role # "organisation"
         THEN reply(NoArgs, 403, [status |-> "Unauthorized"])
       ELSE IF date_str \notin ParsedDates
         THEN reply(NoArgs, 500, [status |-> "ValueError"])
       ELSE IF k # 0
         THEN reply([date |-> date_str], 500,
                    [status |-> IF rows[k].meal_type \notin MealSlotSet
                                  THEN "KeyError" ELSE "AttributeError"])
       ELSE reply([date |-> date_str], 200,
                  [status |-> "present",
                   result |-> [m \in MealSlotSet |-> MealItems(templates, rows, m)]]))
  /\ UNCHANGED <<templates, selections, txn>>

\* round(len(students) / total_students * 100, 1), in tenths of a percent; with the
\* student counts of this model the quotient has no second decimal to round
Share(students, total_students) ==
  (2000 * Cardinality(students) + total_students) \div (2 * total_students)

\* the first loop raises AttributeError on a row whose template is None; the second
\* raises KeyError on result[meal] for a meal key that is no key of `result`
demand_data(user, date_str) ==
  LET rows == SelectionsOn(selections, date_str)
      name(s) == TemplateOf(templates, s).name
      \* meal_to_students[meal][item]
      students(meal, item) ==
        {s.student_id : s \in {r \in Range(rows) : r.meal_type = meal /\ name(r) = item}}
      items(meal) == {name(r) : r \in {r \in Range(rows) : r.meal_type = meal}}
      all_students(meal) == UNION {students(meal, item) : item \in items(meal)}
      reply(args, status, body) == Response("demand_data", args, status, body)
  IN
  /\ resp' = By(user,
       IF user.role # "organisation"
         THEN reply(NoArgs, 403, [status |-> "Unauthorized"])
       ELSE IF date_str \notin ParsedDates
         THEN reply(NoArgs, 400, [status |-> "Invalid date"])
       ELSE IF \E r \in Range(rows) : ~HasTemplate(templates, r)
         THEN reply([date |-> date_str], 500, [status |-> "AttributeError"])
       ELSE IF \E r \in Range(rows) : r.meal_type \notin MealSlotSet
         THEN reply([date |-> date_str], 500, [status |-> "KeyError"])
       ELSE reply([date |-> date_str], 200,
                  [status |-> "present",
                   result |->
                     [m \in MealSlotSet |->
                        [item \in items(m) |->
                           Share(students(m, item), Cardinality(all_students(m)))]]]))
  /\ UNCHANGED <<templates, selections, txn>>

(***************************************************************************)
(* GET /debug-bad-selections and GET /clean-bad-selections                 *)
(***************************************************************************)
\* BadSelections without the test of the template
BadSelections_All(tpls, sel) == sel

\* the rows the loops of the two handlers pick: `if not s.template`
BadSelections(tpls, sel) == SelectSeq(sel, LAMBDA s : ~HasTemplate(tpls, s))

debug_bad_selections(user) ==
  /\ resp' = By(user,
       IF user.role # "organisation"
         THEN Response("debug_bad_selections", NoArgs, 403, [status |-> "Unauthorized"])
         ELSE Response("debug_bad_selections", NoArgs, 200,
                       [status           |-> "report",
                        total_selections |-> Len(selections),
                        bad_selections   |-> Len(BadSelections(templates, selections)),
                        details          |-> BadSelections(templates, selections)]))
  /\ UNCHANGED <<templates, selections, txn>>

\* db.session.delete(s) for each picked row, one commit; a DELETE issued while
\* another session holds the write lock gives up and nothing is deleted
clean_bad_selections(user) ==
  LET deleted == Len(BadSelections(templates, selections))
      locked  == txn.open /\ deleted > 0
      denied  == user.role # "organisation"
  IN
  /\ resp' = By(user,
       IF denied
         THEN Response("clean_bad_selections", NoArgs, 403, [status |-> "Unauthorized"])
       ELSE IF locked
         THEN Response("clean_bad_selections", NoArgs, 500,
                       [status |-> "database is locked"])
       ELSE Response("clean_bad_selections", NoArgs, 200,
                     [status |-> "deleted", deleted |-> deleted]))
  /\ selections' = IF denied \/ locked THEN selections
                   ELSE Resolved(templates, selections)
  /\ UNCHANGED <<templates, txn>>

Next ==
  \/ \E user \in Users, data \in TemplatePayloads : add_menu_template(user, data)
  \/ \E user \in Users, date \in Dates \cup {BadDate} :
       \E items \in (IF user.role = "member" /\ date \in Dates /\ ~txn.open
                      THEN MealsInputs ELSE {<<>>}) :
         student_select_begin(user, date, TRUE, items)
  \/ \E user \in {u \in Users : u.role = "member"}, date \in Dates :
       student_select_begin(user, date, FALSE, <<>>)
  \/ student_select_item
  \/ student_select_commit
  \/ student_select_fail
  \/ \E user \in Users, date_str \in Dates \cup {BadDate}, today \in Dates :
       member_analytics(user, date_str, today)
  \/ \E user \in Users : clean_bad_selections(user)

Spec == Init /\ [][Next]_vars

(***************************************************************************)
(* The handlers that write the stores or read the selections of all        *)
(* students, each called by users of every role.                           *)
(***************************************************************************)
NextGuards ==
  \/ \E user \in Users, data \in TemplatePayloads : add_menu_template(user, data)
  \/ \E user \in Users, date \in Dates \cup {BadDate} :
       \E items \in (IF user.role = "member" /\ date \in Dates /\ ~txn.open
                      THEN MealsInputs ELSE {<<>>}) :
         student_select_begin(user, date, TRUE, items)
  \/ \E user \in {u \in Users : u.role = "member"}, date \in Dates :
       student_select_begin(user, date, FALSE, <<>>)
  \/ student_select_item
  \/ student_select_commit
  \/ student_select_fail
  \/ \E user \in Users, date_str \in Dates \cup {BadDate} : analytics_data(user, date_str)
  \/ \E user \in Users, date_str \in Dates \cup {BadDate} : demand_data(user, date_str)

SpecGuards == Init /\ [][NextGuards]_vars

(***************************************************************************)
(* The analysis on stores drawn from bounded sets: catalogues of up to     *)
(* MaxCatalog templates, and up to MaxRows selection rows, among them rows *)
(* whose template is gone (template_id 0 is the key of no template) and    *)
(* rows of a meal key that /student/select stored unchecked.               *)
(***************************************************************************)
CatalogEntry(k, c) ==
  [id |-> k, name |-> TemplateNames[k], calories |-> c.calories,
   protein |-> c.protein, carbs |-> c.carbs, fats |-> c.fats, sugar |-> c.sugar,
   fibre |-> c.fibre, sodium |-> c.sodium]

Catalogs ==
  UNION {{[k \in 1..len |-> CatalogEntry(k, cs[k])] : cs \in [1..len -> Contents]} :
           len \in 0..MaxCatalog}

\* the meal keys of the drawn rows
StoredMeals == {"lunch", "dinner", "snack1"}

RowStores(tpls) ==
  UNION {[1..len -> [student_id : {1}, date : Dates, meal_type : StoredMeals,
                     template_id : 0..Len(tpls)]] : len \in 0..MaxRows}

InitAnalysis ==
  /\ templates \in Catalogs
  /\ selections \in RowStores(templates)
  /\ txn = NoTxn
  /\ resp = NoResponse

NextAnalysis ==
  \E user \in {u \in Users : u.id \in {1, 3}}, date \in Dates :
    member_analytics(user, date, date)

SpecAnalysis == InitAnalysis /\ [][NextAnalysis]_vars

(***************************************************************************)
(* /student/select on stores that hold rows of two students and two dates. *)
(***************************************************************************)
FrameStores ==
  UNION {[1..len -> [student_id : {1, 2}, date : ParsedDates, meal_type : {"lunch"},
                     template_id : {1}]] : len \in 0..MaxRows}

InitFrame ==
  /\ templates = <<CatalogEntry(1, PerMealEdge)>>
  /\ selections \in FrameStores
  /\ txn = NoTxn
  /\ resp = NoResponse

NextFrame ==
  \/ \E user \in Users, date \in ParsedDates \cup {BadDate} :
       \E items \in (IF user.role = "member" /\ date \in ParsedDates /\ ~txn.open
                      THEN MealsInputs ELSE {<<>>}) :
         student_select_begin(user, date, TRUE, items)
  \/ \E user \in {u \in Users : u.role = "member"}, date \in ParsedDates :
       student_select_begin(user, date, FALSE, <<>>)
  \/ student_select_item
  \/ student_select_commit
  \/ student_select_fail

SpecFrame == InitFrame /\ [][NextFrame]_vars

(***************************************************************************)
(* The analysis on quantities at the edge of exactness: templates whose    *)
(* fields are 2^FloatBits, the first float whose successor is 2 away, and  *)
(* templates whose fields are 1.                                           *)
(***************************************************************************)
FloatContents ==
  {[n \in NutrientSet |-> 2 ^ FloatBits], [n \in NutrientSet |-> 1]}

FloatCatalogs ==
  UNION {{[k \in 1..len |-> CatalogEntry(k, cs[k])] : cs \in [1..len -> FloatContents]} :
           len \in 0..2}

FloatStores(tpls) ==
  UNION {[1..len -> [student_id : {1}, date : Dates, meal_type : MealSlotSet,
                     template_id : 0..Len(tpls)]] : len \in 0..MaxSummands}

InitFloat ==
  /\ templates \in FloatCatalogs
  /\ selections \in FloatStores(templates)
  /\ txn = NoTxn
  /\ resp = NoResponse

NextFloat == \E date \in Dates : member_analytics(UserOf(1), date, date)

SpecFloat == InitFloat /\ [][NextFloat]_vars

(***************************************************************************)
(* find_items_high_in_nutrient called on its own, for the seven nutrients  *)
(* and for a name that is no nutrient, on catalogues of up to MaxCatalog   *)
(* templates and the selections of one student.                            *)
(***************************************************************************)
RankedNutrients == NutrientSet \cup {"vitamin_c"}

\* the call, with the `meals` of student 1 as exclude_meals
find_items_call(nutrient) ==
  LET rows  == Resolved(templates, SelectionsOf(selections, 1, "2024-03-01"))
      meals == [m \in MealSlotSet |-> MealItems(templates, rows, m)]
  IN
  /\ resp' = By(UserOf(1),
                Response("find_items_high_in_nutrient", [nutrient |-> nutrient], 200,
                         [status |-> "ranked",
                          items  |-> find_items_high_in_nutrient(templates, nutrient,
                                                                 meals)]))
  /\ UNCHANGED <<templates, selections, txn>>

InitRanking ==
  /\ templates \in Catalogs
  /\ selections \in {sel \in RowStores(templates) : Len(sel) <= 1}
  /\ txn = NoTxn
  /\ resp = NoResponse

NextRanking ==
  \/ \E nutrient \in RankedNutrients : find_items_call(nutrient)
  \/ \E date \in Dates : member_analytics(UserOf(1), date, date)

SpecRanking == InitRanking /\ [][NextRanking]_vars

(***************************************************************************)
(* The audit and the purge on stores that hold rows whose template is gone *)
(* (template_id 0): SQLite does not enforce the foreign key, so a template *)
(* deleted in the database leaves its selection rows behind.               *)
(***************************************************************************)
AuditCatalogs ==
  {c \in Catalogs : Len(c) <= 2 /\ \A i \in 1..Len(c) : c[i] = CatalogEntry(i, PerMealEdge)}

InitAudit ==
  /\ templates \in AuditCatalogs
  /\ selections \in RowStores(templates)
  /\ txn = NoTxn
  /\ resp = NoResponse

NextAudit ==
  \/ \E user \in Users : debug_bad_selections(user)
  \/ \E user \in Users : clean_bad_selections(user)

SpecAudit == InitAudit /\ [][NextAudit]_vars

(***************************************************************************)
(* Properties.  Every action overwrites resp, so a state whose resp is the *)
(* answer of a handler is the state that handler left behind.              *)
(***************************************************************************)
\* resp is the outcome of a call of analyze_daily_nutrition
IsAnalysis == resp.op = "member_analytics" /\ resp.status # 302

\* ... and the call returned the analysis structure
IsPresent == IsAnalysis /\ resp.body.status = "present"

\* the selection rows of the analysed (student, date)
AnalysedRows == SelectionsOf(selections, resp.args.student_id, resp.args.date)

\* C3: analyze(student, date) returns absent if and only if the store holds no
\* selection row of that (student, date), and returns a present analysis structure
\* whenever it holds at least one, resolvable or not.
C3_AbsentIffNoSelections ==
  IsAnalysis =>
    /\ resp.body = Absent <=> AnalysedRows = <<>>
    /\ AnalysedRows # <<>> => resp.body.status = "present"

\* the suggestions of one kind that are about nutrient n
Deficiencies(n) ==
  {i \in 1..Len(resp.body.suggestions) :
     /\ resp.body.suggestions[i].type = "suggestion"
     /\ resp.body.suggestions[i].nutrient = Capitalize(n)}

Warnings(n) ==
  {i \in 1..Len(resp.body.suggestions) :
     /\ resp.body.suggestions[i].type = "warning"
     /\ resp.body.suggestions[i].nutrient = n}

Limited == {"sugar", "sodium"}

\* C4: a Deficiency is emitted for nutrient N iff total[N] < min[N] and N is neither
\* sugar nor sodium, a Warning iff N is sugar or sodium and total[N] > max[N], and no
\* nutrient gets more than one suggestion.
C4_SuggestionIffOutOfRange ==
  IsPresent =>
    \A n \in NutrientSet :
      /\ Deficiencies(n) # {}
           <=> (resp.body.totals[n] < DAILY_RECOMMENDED[n].min /\ n \notin Limited)
      /\ Warnings(n) # {}
           <=> (n \in Limited /\ resp.body.totals[n] > DAILY_RECOMMENDED[n].max)
      /\ Cardinality(Deficiencies(n) \cup Warnings(n)) <= 1
      /\ Len(resp.body.suggestions)
           = Cardinality(UNION {Deficiencies(m) \cup Warnings(m) : m \in NutrientSet})

\* an analysis with a deficiency, a warning, and a nutrient to ensure that sits
\* exactly on its minimum and gets no suggestion
C4_Witness ==
  /\ IsPresent
  /\ \E n \in NutrientSet : Deficiencies(n) # {}
  /\ \E n \in NutrientSet : Warnings(n) # {}
  /\ \E n \in NutrientSet \ Limited :
       /\ resp.body.totals[n] = DAILY_RECOMMENDED[n].min
       /\ Deficiencies(n) \cup Warnings(n) = {}

\* the item names selected that day, in any meal slot
SelectedNames ==
  {TemplateOf(templates, r).name : r \in Range(Resolved(templates, AnalysedRows))}

\* the templates that are not among them
Pool == {k \in 1..Len(templates) : templates[k].name \notin SelectedNames}

\* the nutrient key a Deficiency suggestion is about
DeficientNutrient(sg) == CHOOSE n \in NutrientSet : Capitalize(n) = sg.nutrient

\* C5: the candidate list of every Deficiency suggestion (a) holds no item selected
\* that day, (b) has length min(3, size of the pool of templates not selected),
\* (c) lists pool templates, each once, by non-increasing value of the deficient
\* nutrient, and (d) leaves out no pool template with a strictly larger value than
\* a listed one.
C5_RankedCandidates ==
  IsPresent =>
    \A i \in 1..Len(resp.body.suggestions) :
      resp.body.suggestions[i].type = "suggestion" =>
        LET sg == resp.body.suggestions[i]
            n  == DeficientNutrient(sg)
            L  == sg.recommended_items
        IN  /\ \A j \in 1..Len(L) : L[j].name \notin SelectedNames
            /\ Len(L) = IF Cardinality(Pool) < 3 THEN Cardinality(Pool) ELSE 3
            /\ \A j \in 1..Len(L) :
                 \E k \in Pool : /\ templates[k].name = L[j].name
                                 /\ templates[k][n] = L[j].amount
            /\ \A j, k \in 1..Len(L) : j # k => L[j].name # L[k].name
            /\ \A j \in 1..(Len(L) - 1) : L[j].amount >= L[j + 1].amount
            /\ \A k \in Pool :
                 (\A j \in 1..Len(L) : L[j].name # templates[k].name)
                   => \A j \in 1..Len(L) : templates[k][n] <= L[j].amount

\* a deficiency whose three candidates are not in catalogue order, with a selected
\* template left out of them
C5_Witness ==
  /\ IsPresent
  /\ SelectedNames # {}
  /\ \E i \in 1..Len(resp.body.suggestions) :
       /\ resp.body.suggestions[i].type = "suggestion"
       /\ Len(resp.body.suggestions[i].recommended_items) = 3
       /\ \E j \in 1..2, k1, k2 \in Pool :
            /\ templates[k1].name = resp.body.suggestions[i].recommended_items[j].name
            /\ templates[k2].name = resp.body.suggestions[i].recommended_items[j + 1].name
            /\ k2 < k1

\* C6: every percentage lies in [0, 100], and equals min(100, total*100/max) for
\* sugar and sodium and min(100, total*100/((min+max)/2)) for the other nutrients.
C6_PercentageWithinRange ==
  IsPresent =>
    \A n \in NutrientSet :
      LET p     == resp.body.percentages[n]
          total == resp.body.totals[n]
          rec   == DAILY_RECOMMENDED[n]
          \* the denominator of total*100/d, doubled for the midpoint target
          raw   == IF n \in Limited THEN [num |-> total * 100, den |-> rec.max]
                   ELSE [num |-> total * 200, den |-> rec.min + rec.max]
      IN  /\ p.den > 0
          /\ 0 <= p.num
          /\ p.num <= 100 * p.den
          /\ IF raw.num < 100 * raw.den
               THEN p.num * raw.den = raw.num * p.den
               ELSE p.num = 100 * p.den

\* the advisories of one slot of meal_breakdown, in the order they are listed
Advisories(m) ==
  [j \in 1..Len(resp.body.meal_breakdown[m].suggestions) |->
     resp.body.meal_breakdown[m].suggestions[j].advisory]

AdvisoryRank(a) ==
  CASE a = "low in protein" -> 1
    [] a = "could use more fiber" -> 2
    [] a = "high in sugar" -> 3

\* C7: for every populated slot the low-protein advisory is present iff the slot's
\* protein total < 15, the more-fibre advisory iff its fibre total < 5, the
\* high-sugar advisory iff its sugar total > 15; they appear once each, in the order
\* protein, fibre, sugar.
C7_AdvisoryThresholds ==
  IsPresent =>
    \A m \in DOMAIN resp.body.meal_breakdown :
      LET t   == resp.body.meal_breakdown[m].totals
          adv == Advisories(m)
      IN  /\ "low in protein" \in Range(adv) <=> t.protein < 15
          /\ "could use more fiber" \in Range(adv) <=> t.fibre < 5
          /\ "high in sugar" \in Range(adv) <=> t.sugar > 15
          /\ \A i, j \in 1..Len(adv) :
               i < j => AdvisoryRank(adv[i]) < AdvisoryRank(adv[j])

\* a slot with all three advisories, each total one unit past its threshold
C7_Witness ==
  /\ IsPresent
  /\ \E m \in DOMAIN resp.body.meal_breakdown :
       /\ Len(resp.body.meal_breakdown[m].suggestions) = 3
       /\ resp.body.meal_breakdown[m].totals.protein = 14
       /\ resp.body.meal_breakdown[m].totals.fibre = 4
       /\ resp.body.meal_breakdown[m].totals.sugar = 16

\* the slots with at least one resolvable selection of the analysed (student, date)
Populated ==
  {m \in MealSlotSet :
     \E r \in Range(AnalysedRows) : r.meal_type = m /\ HasTemplate(templates, r)}

\* C8: `meals` and `meal_breakdown` both have as keys exactly the slots with at
\* least one resolvable selection.
C8_MapsKeyedByPopulatedSlots ==
  IsPresent =>
    /\ DOMAIN resp.body.meals = Populated
    /\ DOMAIN resp.body.meal_breakdown = Populated

\* C8, amended: `meal_breakdown` has as keys exactly the slots with at least one
\* resolvable selection; `meals` has the three slots as keys, with an empty item
\* list for exactly the slots without one.
C8_BreakdownKeyedByPopulatedSlots ==
  IsPresent =>
    /\ DOMAIN resp.body.meal_breakdown = Populated
    /\ DOMAIN resp.body.meals = MealSlotSet
    /\ \A m \in MealSlotSet : resp.body.meals[m] # <<>> <=> m \in Populated

\* one slot populated, another holding only a row whose template is gone
C8_Witness ==
  /\ IsPresent
  /\ Populated # {}
  /\ \E r \in Range(AnalysedRows) :
       /\ ~HasTemplate(templates, r)
       /\ r.meal_type \in MealSlotSet \ Populated

\* resp is the "saved" answer of /student/select
IsSaved == resp.op = "student_select" /\ resp.status = 200

\* the (meal, name) pairs of stored rows, in row order
StoredPairs(rows) ==
  [i \in 1..Len(rows) |-> Pair(rows[i].meal_type, TemplateOf(templates, rows[i]).name)]

\* the pairs of a request whose name is the name of a template, in request order
ResolvablePairs(items) == SelectSeq(items, LAMBDA it : it.name \in NamesOf(templates))

\* a selection table holding nothing but the resolvable pairs of a request
RowsFrom(student_id, date, items) ==
  [i \in 1..Len(ResolvablePairs(items)) |->
     [student_id |-> student_id, date |-> date,
      meal_type |-> ResolvablePairs(items)[i].meal,
      template_id |->
        (CHOOSE t \in Range(templates) : t.name = ResolvablePairs(items)[i].name).id]]

\* C1: once a replacement of the selections of (student, date) by item set B is
\* saved, the selections stored for (student, date) are exactly the resolvable
\* (slot, name) pairs of B, whatever set A it replaced, and an analysis is computed
\* from B alone.
C1_SecondSetOnly ==
  IsSaved =>
    LET s == resp.args.student_id
        d == resp.args.date
    IN  /\ StoredPairs(SelectionsOf(selections, s, d)) = ResolvablePairs(resp.args.items)
        /\ analyze_daily_nutrition(templates, selections, s, d)
             = analyze_daily_nutrition(templates, RowsFrom(s, d, resp.args.items), s, d)

\* a saved set B that replaced a set A holding a pair B does not hold
C1_Witness ==
  /\ IsSaved
  /\ ResolvablePairs(resp.args.items) # <<>>
  /\ \E p \in Range(StoredPairs(resp.args.replaced)) :
       p \notin Range(ResolvablePairs(resp.args.items))

\* C2: while a replacement for (student, date) is in progress the committed table
\* holds the complete old set of (student, date), an analysis of that (student,
\* date) answered meanwhile is the analysis of the complete old set or of the
\* complete new set, and a request that failed before commit left the old set.
C2_AllOldOrAllNew ==
  /\ txn.open =>
       SelectionsOf(selections, txn.student_id, txn.date) = txn.replaced
  /\ (/\ txn.open
      /\ IsAnalysis
      /\ resp.args.student_id = txn.student_id
      /\ resp.args.date = txn.date)
       => \/ resp.body = analyze_daily_nutrition(templates, txn.replaced,
                                                 txn.student_id, txn.date)
          \/ resp.body = analyze_daily_nutrition(
                           templates, RowsFrom(txn.student_id, txn.date, txn.items),
                           txn.student_id, txn.date)
  /\ (resp.op = "student_select" /\ resp.status = 500 /\ resp.body.status = "error")
       => SelectionsOf(selections, resp.args.student_id, resp.args.date)
            = resp.args.replaced

\* a replacement of a non-empty set with one of its two rows inserted, and an
\* analysis of that (student, date) answered at that moment
C2_Witness ==
  /\ txn.open
  /\ txn.replaced # <<>>
  /\ Len(txn.items) = 2
  /\ txn.next = 2
  /\ Len(SelectionsOf(txn.work, txn.student_id, txn.date)) = 1
  /\ IsPresent
  /\ resp.args.student_id = txn.student_id
  /\ resp.args.date = txn.date

\* how often x occurs in a sequence
Count(seq, x) == Cardinality({i \in 1..Len(seq) : seq[i] = x})

\* C9: a name that does not resolve never stops the request: the loop goes on to
\* the next pair and to the commit, which stores one row for each occurrence of a
\* (slot, name) pair whose name is a template and none for the other pairs.
C9_UnresolvedNamesDropped ==
  /\ (txn.open /\ txn.has_meals /\ txn.next <= Len(txn.items))
       => ENABLED student_select_item
  /\ (txn.open /\ txn.has_meals /\ txn.next > Len(txn.items))
       => ENABLED student_select_commit
  /\ IsSaved =>
       LET rows == SelectionsOf(selections, resp.args.student_id, resp.args.date)
       IN  /\ \A r \in Range(rows) : HasTemplate(templates, r)
           /\ \A p \in Range(resp.args.items) :
                Count(StoredPairs(rows), p)
                  = IF p.name \in NamesOf(templates)
                      THEN Count(resp.args.items, p) ELSE 0
           /\ Len(rows)
                = Cardinality({i \in 1..Len(resp.args.items) :
                                 resp.args.items[i].name \in NamesOf(templates)})

\* a saved request that named a template and a name that is no template
C9_Witness ==
  /\ IsSaved
  /\ \E i, j \in 1..Len(resp.args.items) :
       /\ resp.args.items[i].name \in NamesOf(templates)
       /\ resp.args.items[j].name \notin NamesOf(templates)
  /\ Len(SelectionsOf(selections, resp.args.student_id, resp.args.date)) = 1

\* C10: a request to create a template whose name exists is answered with the
\* duplicate-name error and leaves the template store unchanged; the store changes
\* only by a successful request appending a template of a new name; so no two
\* templates share a name.
C10_DuplicateNameRejected ==
  [][/\ (/\ resp'.op = "add_menu_template"
         /\ resp'.args # NoArgs
         /\ resp'.args.name \in NamesOf(templates))
          => /\ resp'.status = 400
             /\ resp'.body = [status |-> "Item already exists"]
             /\ templates' = templates
     /\ templates' # templates
          => /\ resp'.op = "add_menu_template"
             /\ resp'.status = 200
             /\ resp'.args.name \notin NamesOf(templates)
             /\ Len(templates') = Len(templates) + 1
             /\ SubSeq(templates', 1, Len(templates)) = templates
             /\ templates'[Len(templates')].name = resp'.args.name
     /\ \A i, j \in 1..Len(templates') :
          i # j => templates'[i].name # templates'[j].name]_vars

\* the duplicate-name answer, in a store that holds the name
C10_Witness ==
  /\ resp.op = "add_menu_template"
  /\ resp.status = 400
  /\ resp.body = [status |-> "Item already exists"]
  /\ resp.args.name \in NamesOf(templates)

\* C11: a request to create a template with a nutrient value that is missing, not
\* a number or negative is answered with a validation error and creates nothing,
\* so every stored template has seven non-negative nutrient fields.
C11_NutrientsValidated ==
  /\ \A t \in Range(templates) : \A n \in NutrientSet : t[n] >= 0
  /\ ~(/\ resp.op = "add_menu_template"
       /\ resp.status = 500
       /\ resp.body = [status |-> "ValueError"])

\* C12: a meal key outside breakfast, lunch and dinner is rejected, so every stored
\* selection row has one of the three slots and no analysis of a stored (student,
\* date) fails.
C12_UnknownSlotRejected ==
  /\ \A r \in Range(selections) : r.meal_type \in MealSlotSet
  /\ IsAnalysis => resp.body # Raised

\* the Unauthorized answer: nothing but the error, and the stores as they were
Denied ==
  /\ resp'.status = 403
  /\ resp'.body = [status |-> "Unauthorized"]
  /\ resp'.args = NoArgs
  /\ UNCHANGED <<templates, selections, txn>>

\* C13: a request to create a template, to read the analytics or the demand of all
\* students from a user whose role is not organisation, and a request to replace
\* selections from a user whose role is not member, is answered Unauthorized with
\* no data and leaves the template and selection stores unchanged.
C13_RoleGuards ==
  [][/\ (/\ resp'.op \in {"add_menu_template", "analytics_data", "demand_data"}
         /\ resp'.actor # "organisation") => Denied
     /\ (resp'.op = "student_select" /\ resp'.actor # "member") => Denied
     /\ txn'.open => UserOf(txn'.student_id).role = "member"]_vars

\* a member is denied the analytics of all students while the store holds selections
C13_Witness ==
  /\ resp.op = "analytics_data"
  /\ resp.actor = "member"
  /\ resp.status = 403
  /\ selections # <<>>

\* the primary keys of the templates
IdsOf(tpls) == {tpls[i].id : i \in 1..Len(tpls)}

\* the rows that reference no template, and those that reference one, in row order
Dangling(sel) == SelectSeq(sel, LAMBDA s : s.template_id \notin IdsOf(templates))

Referencing(sel) == SelectSeq(sel, LAMBDA s : s.template_id \in IdsOf(templates))

\* C14: the audit reports exactly the rows whose template reference does not
\* resolve and changes nothing; the purge deletes exactly those rows, keeps every
\* other row as it was, reports the number of rows it deleted, and a purge that
\* follows a purge deletes nothing.
C14_AuditAndPurge ==
  [][/\ (resp'.op = "debug_bad_selections" /\ resp'.status = 200) =>
          /\ resp'.body.details = Dangling(selections)
          /\ resp'.body.bad_selections = Len(Dangling(selections))
          /\ resp'.body.total_selections = Len(selections)
          /\ UNCHANGED <<templates, selections>>
     /\ (resp'.op = "clean_bad_selections" /\ resp'.status = 200) =>
          /\ selections' = Referencing(selections)
          /\ \A i \in 1..Len(selections') : HasTemplate(templates', selections'[i])
          /\ resp'.body.deleted = Len(Dangling(selections))
          /\ templates' = templates
     /\ (/\ resp.op = "clean_bad_selections" /\ resp.status = 200
         /\ resp'.op = "clean_bad_selections" /\ resp'.status = 200) =>
          /\ resp'.body.deleted = 0
          /\ selections' = selections]_vars

\* a purge that deleted a row and kept one
C14_Witness ==
  /\ resp.op = "clean_bad_selections"
  /\ resp.status = 200
  /\ resp.body.deleted >= 1
  /\ selections # <<>>

\* resp is the result of a call of find_items_high_in_nutrient
IsRanking == resp.op = "find_items_high_in_nutrient"

\* C15: every warning of an analysis carries an empty list of items, and the
\* ranking of a nutrient other than calories, protein, carbs, fats and fibre is the
\* empty list whatever the template store holds.
C15_WarningsCarryNoItems ==
  /\ IsPresent =>
       \A i \in 1..Len(resp.body.suggestions) :
         resp.body.suggestions[i].type = "warning"
           => resp.body.suggestions[i].items = <<>>
  /\ (/\ IsRanking
      /\ resp.args.nutrient \notin {"calories", "protein", "carbs", "fats", "fibre"})
       => resp.body.items = <<>>

\* the ranking of sodium was asked for with a template in the store that is rich
\* in sodium and not selected
C15_Witness ==
  /\ IsRanking
  /\ resp.args.nutrient = "sodium"
  /\ \E t \in Range(templates) :
       /\ t.sodium > DAILY_RECOMMENDED.sodium.max
       /\ \A r \in Range(selections) : r.template_id # t.id

\* C16: a row whose template does not resolve is skipped and does not fail the
\* analysis: whenever the (student, date) has rows, the analysis is present and its
\* daily totals, per-slot item lists and per-slot totals are those of the rows that
\* reference a template, whatever dangling rows are stored among them (the rows
\* that reference a template being rows of the three slots).
C16_DanglingRowsSkipped ==
  (/\ IsAnalysis
   /\ AnalysedRows # <<>>
   /\ \A r \in Range(Referencing(AnalysedRows)) : r.meal_type \in MealSlotSet)
    => LET rows == Referencing(AnalysedRows)
       IN  /\ resp.body.status = "present"
           /\ resp.body.totals = Totals(templates, rows)
           /\ \A m \in MealSlotSet :
                /\ resp.body.meals[m] = MealItems(templates, rows, m)
                /\ InSlot(rows, m) # <<>> =>
                     /\ m \in DOMAIN resp.body.meal_breakdown
                     /\ resp.body.meal_breakdown[m].totals
                          = Totals(templates, InSlot(rows, m))
                     /\ resp.body.meal_breakdown[m].items = MealItems(templates, rows, m)

\* an analysis of a dangling row stored before a row that references a template
C16_Witness ==
  /\ IsPresent
  /\ Len(AnalysedRows) = 2
  /\ AnalysedRows[1].template_id \notin IdsOf(templates)
  /\ AnalysedRows[2].template_id \in IdsOf(templates)

\* the place of the nutrient of a suggestion in the order of `totals`
NutrientRank(sg) ==
  CHOOSE k \in 1..Len(Nutrients) :
    sg.nutrient = (IF sg.type = "warning" THEN Nutrients[k] ELSE Capitalize(Nutrients[k]))

\* the selected names as one list, in the order of the template store
SelectedNamesList ==
  LET t == SelectSeq(templates, LAMBDA x : x.name \in SelectedNames)
  IN  [i \in 1..Len(t) |-> t[i].name]

\* C17: the nutrients of the suggestions of an analysis follow the order calories,
\* protein, carbs, fats, sugar, fibre, sodium, and the sequence is a function of the
\* totals, the set of selected names and the template store alone: it is the one
\* computed from these with the names placed in any slot and order.
C17_SuggestionsOrderedAndDetermined ==
  IsPresent =>
    /\ \A i, j \in 1..Len(resp.body.suggestions) :
         i < j => NutrientRank(resp.body.suggestions[i])
                    < NutrientRank(resp.body.suggestions[j])
    /\ resp.body.suggestions
         = generate_suggestions(templates, resp.body.totals,
                                [breakfast |-> SelectedNamesList, lunch |-> <<>>,
                                 dinner |-> <<>>])

\* an analysis of items of two slots with a warning after a deficiency that
\* recommends an item
C17_Witness ==
  /\ IsPresent
  /\ resp.body.meals.lunch # <<>>
  /\ resp.body.meals.dinner # <<>>
  /\ \E i, j \in 1..Len(resp.body.suggestions) :
       /\ i < j
       /\ resp.body.suggestions[i].type = "suggestion"
       /\ resp.body.suggestions[i].recommended_items # <<>>
       /\ resp.body.suggestions[j].type = "warning"

\* the rows that are not of (student_id, date), in row order
OtherRows(sel, student_id, date) ==
  SelectSeq(sel, LAMBDA s : s.student_id # student_id \/ s.date # date)

\* C18: a step of /student/select leaves the template store unchanged, and the
\* stored selections change only by a saved replacement, which leaves every row of
\* another student or another date as it was; so the selections of a (student,
\* date) change only by a saved request of that student for that date.
C18_OtherSelectionsUnchanged ==
  [][/\ templates' = templates
     /\ selections' # selections =>
          /\ resp'.op = "student_select"
          /\ resp'.status = 200
          /\ OtherRows(selections', resp'.args.student_id, resp'.args.date)
               = OtherRows(selections, resp'.args.student_id, resp'.args.date)
     /\ \A u \in Users, d \in ParsedDates :
          SelectionsOf(selections', u.id, d) # SelectionsOf(selections, u.id, d) =>
            /\ resp'.op = "student_select"
            /\ resp'.status = 200
            /\ resp'.args.student_id = u.id
            /\ resp'.args.date = d]_vars

\* a saved replacement of a non-empty set in a store that holds a row of the other
\* student
C18_Witness ==
  /\ IsSaved
  /\ resp.args.replaced # <<>>
  /\ ResolvablePairs(resp.args.items) # <<>>
  /\ \E r \in Range(selections) : r.student_id # resp.args.student_id

\* C20: starting from empty stores, after any sequence of requests that create
\* templates, replace selections and purge, every selection row, stored or added in
\* the open transaction, references a template of the store.
C20_NoDanglingSelection ==
  /\ \A r \in Range(selections) : r.template_id \in IdsOf(templates)
  /\ txn.open => \A r \in Range(txn.work) : r.template_id \in IdsOf(templates)

\* a purge answered with two templates and two selection rows in the stores
C20_Witness ==
  /\ resp.op = "clean_bad_selections"
  /\ resp.status = 200
  /\ Len(templates) = 2
  /\ Len(selections) = 2

\* one nutrient field of the templates of rows, in row order
FieldValues(rows, n) == [i \in 1..Len(rows) |-> TemplateOf(templates, rows[i])[n]]

RECURSIVE RunningSum(_)
\* ((0 + v1) + v2) + ... on floats
RunningSum(vs) == IF vs = <<>> THEN 0 ELSE FloatAdd(RunningSum(Front(vs)), Last(vs))

RECURSIVE ExactSum(_)
\* v1 + v2 + ... on whole numbers
ExactSum(vs) == IF vs = <<>> THEN 0 ELSE ExactSum(Front(vs)) + Last(vs)

\* meal_totals[m][n] of the analysis of resp: a slot that is not in the breakdown
\* holds no item and has the total 0
SlotTotal(m, n) ==
  IF m \in DOMAIN resp.body.meal_breakdown
    THEN resp.body.meal_breakdown[m].totals[n] ELSE 0

\* each per-slot total is the sum, in row order, of the nutrient over the rows of
\* the slot that reference a template
SlotTotalsAreSums ==
  \A n \in NutrientSet, m \in MealSlotSet :
    SlotTotal(m, n) = RunningSum(FieldValues(InSlot(Referencing(AnalysedRows), m), n))

\* C19 as stated: in every present analysis and for each nutrient the daily total
\* equals the sum breakfast + lunch + dinner of the per-slot totals, and each
\* per-slot total is the sum over the resolvable selections of the slot.
C19_TotalIsSumOfSlotTotals ==
  IsPresent =>
    /\ SlotTotalsAreSums
    /\ \A n \in NutrientSet :
         resp.body.totals[n]
           = FloatAdd(FloatAdd(SlotTotal("breakfast", n), SlotTotal("lunch", n)),
                      SlotTotal("dinner", n))

\* C19, amended: each per-slot total is the float sum in row order over the
\* resolvable selections of the slot, the daily total the float sum in row order
\* over all resolvable selections; the daily total equals the sum of the three
\* per-slot totals whenever the exact sum of the nutrient is below 2^FloatBits, so
\* that no addition rounds.
C19_TotalsAreRunningSums ==
  IsPresent =>
    /\ SlotTotalsAreSums
    /\ \A n \in NutrientSet :
         LET vs == FieldValues(Referencing(AnalysedRows), n)
         IN  /\ resp.body.totals[n] = RunningSum(vs)
             /\ ExactSum(vs) < 2 ^ FloatBits =>
                  /\ resp.body.totals[n] = ExactSum(vs)
                  /\ resp.body.totals[n]
                       = SlotTotal("breakfast", n) + SlotTotal("lunch", n)
                           + SlotTotal("dinner", n)

\* an analysis of three rows of two slots in which a sum rounded
C19_Witness ==
  /\ IsPresent
  /\ Len(Referencing(AnalysedRows)) = 3
  /\ Cardinality(DOMAIN resp.body.meal_breakdown) = 2
  /\ \E n \in NutrientSet :
       resp.body.totals[n] # ExactSum(FieldValues(Referencing(AnalysedRows), n))

====
